---- MODULE Spec2Model ----
(***************************************************************************)
(* Chunk orchestrator of the BMF RAG platform                              *)
(* (src/agents/chunk_orchestrator/chunk_agent.py): the windowing chunker,  *)
(* the table chunk builder, chunk identity and checksum, the SQLite        *)
(* version ledger (chunk_checksums) and process_document.                  *)
(*                                                                         *)
(* Representation of strings.  A text is the sequence of its whitespace    *)
(* separated words (str.split()); a word is a number, and the number is    *)
(* also the count of tokens tiktoken gives the word.  count_tokens of a    *)
(* text is the sum over its words: joining with ' ' or with a blank line   *)
(* is taken to add no token (the most favourable reading for the token     *)
(* budget), while a word followed by a trailing blank costs one token      *)
(* more than the word.  A chunk's content is a sequence of paragraphs      *)
(* (texts joined by a blank line); ' '.join gives one paragraph.           *)
(***************************************************************************)
EXTENDS Integers, Sequences, FiniteSets, TLC

VARIABLES
    cfg,        \* self.chunking_config
    ledger,     \* table chunk_checksums: chunk_id -> row
    now,        \* the clock read by datetime.now()
    pc,         \* per worker: position inside process_document
    document,   \* per worker: the parsed document being processed
    page,       \* per worker: pages of a pdf consumed so far
    chunks,     \* per worker: chunks produced for the document
    idx,        \* per worker: number of chunks already classified
    diff,       \* per worker: (status, version) of the chunk being handled
    to_ingest,  \* per worker: chunks_to_ingest
    result,     \* per worker: what process_document returned
    base,       \* per worker: the ledger as it was when the document started
    processed,  \* history: checksums of the documents process_document completed
    api,        \* the last call of a client using the ledger directly
    stats,      \* per worker: self.stats
    statuses,   \* per worker, history: what check_chunk_diff said of each chunk so far
    ingested,   \* per worker: the batches ingest_to_agentset got for the document
    rpc,        \* per worker: "running" inside run_orchestrator, else "none"
    json_files, \* per worker: the files run_orchestrator found, in order
    results,    \* per worker: the results run_orchestrator has collected
    report_files, \* per worker: number of chunk_report_*.json files in input_dir
    report,     \* per worker: what run_orchestrator returned
    sent        \* history: (chunk_id, checksum) of the chunks handed to ingest_to_agentset

vars == <<cfg, ledger, now, pc, document, page, chunks, idx, diff, to_ingest,
          result, base, processed, api, stats, statuses, ingested, rpc,
          json_files, results, report_files, report, sent>>

\* the state of the loop of run_orchestrator, apart from the results
run_vars == <<rpc, json_files, report_files, report>>

-----------------------------------------------------------------------------
(* Bounds of the model *)

MaxWord == 2
MaxDocWords == 3
MaxUnits == 2
MaxPages == 2
MaxTime == 2
MaxVersion == 3

-----------------------------------------------------------------------------
(* Helpers on sequences *)

RECURSIVE SumSeq(_)
SumSeq(s) == IF s = <<>> THEN 0 ELSE Head(s) + SumSeq(Tail(s))

RECURSIVE Flatten(_)
Flatten(ss) == IF ss = <<>> THEN <<>> ELSE Head(ss) \o Flatten(Tail(ss))

\* python's s[-n:] for 0 < n
LastN(s, n) == IF n >= Len(s) THEN s ELSE SubSeq(s, Len(s) - n + 1, Len(s))

Max2(a, b) == IF a >= b THEN a ELSE b

SeqsUpTo(S, n) == UNION {[1..k -> S] : k \in 0..n}

-----------------------------------------------------------------------------
(* Tokenizer *)

Words == 1..MaxWord

WordTokens(w) == w

count_tokens(text) == SumSeq([k \in 1..Len(text) |-> WordTokens(text[k])])

\* count_tokens(word + ' ')
count_tokens_trailing(word) == WordTokens(word) + 1

ContentTokens(content) == count_tokens(Flatten(content))

JoinSpace(parts) == <<Flatten(parts)>>

-----------------------------------------------------------------------------
(* Windowing chunker *)

\* create_chunks: overlap_tokens = int(max_tokens * percentage / 100)
OverlapTokens(c) == (c.max_tokens * c.overlap_percentage) \div 100

\* _get_overlap_text with a slip: the slice takes the words from the front
\* (words[:overlap_words])
get_overlap_text_head(parts, overlap_tokens) ==
    LET words == Flatten(parts)
        overlap_words == Max2(1, overlap_tokens \div 2)
    IN  IF Len(words) > overlap_words THEN SubSeq(words, 1, overlap_words) ELSE words

\* _get_overlap_text
get_overlap_text(parts, overlap_tokens) ==
    LET words == Flatten(parts)
        overlap_words == Max2(1, overlap_tokens \div 2)
    IN  IF Len(words) > overlap_words THEN LastN(words, overlap_words) ELSE words

\* _split_large_text: the loop over words, then the final flush
RECURSIVE SplitLoop(_, _, _, _, _, _, _)
SplitLoop(words, i, out, current_chunk, current_tokens, max_tokens, overlap_tokens) ==
    IF i > Len(words)
    THEN IF current_chunk # <<>> THEN Append(out, current_chunk) ELSE out
    ELSE LET word == words[i]
             word_tokens == count_tokens(<<word>>)
         IN  IF current_tokens + word_tokens <= max_tokens
             THEN SplitLoop(words, i + 1, out, Append(current_chunk, word),
                            current_tokens + word_tokens, max_tokens, overlap_tokens)
             ELSE LET overlap_words == (Len(current_chunk) * overlap_tokens) \div max_tokens
                      next == IF overlap_words # 0
                              THEN LastN(current_chunk, overlap_words) \o <<word>>
                              ELSE <<word>>
                  IN  SplitLoop(words, i + 1, Append(out, current_chunk), next,
                                count_tokens(next), max_tokens, overlap_tokens)

split_large_text(text, max_tokens, overlap_tokens) ==
    SplitLoop(text, 1, <<>>, <<>>, 0, max_tokens, overlap_tokens)

\* _chunk_semantic_elements: the loop over elements, then the final flush.
\* Gives the contents in order; chunk_index is the position, counted from 0.
RECURSIVE SemLoop(_, _, _, _, _, _, _)
SemLoop(elements, i, out, current_chunk, current_tokens, max_tokens, overlap_tokens) ==
    IF i > Len(elements)
    THEN IF current_chunk # <<>> THEN Append(out, JoinSpace(current_chunk)) ELSE out
    ELSE LET elem_text == elements[i]
             elem_tokens == count_tokens(elem_text)
         IN  IF elem_tokens > max_tokens
             THEN LET flushed == IF current_chunk # <<>>
                                 THEN Append(out, JoinSpace(current_chunk)) ELSE out
                      split_chunks == split_large_text(elem_text, max_tokens, overlap_tokens)
                  IN  SemLoop(elements, i + 1,
                              flushed \o [k \in 1..Len(split_chunks) |-> <<split_chunks[k]>>],
                              <<>>, 0, max_tokens, overlap_tokens)
             ELSE IF current_tokens + elem_tokens <= max_tokens
             THEN SemLoop(elements, i + 1, out, Append(current_chunk, elem_text),
                          current_tokens + elem_tokens, max_tokens, overlap_tokens)
             ELSE LET overlap_text == get_overlap_text(current_chunk, overlap_tokens)
                      next == IF overlap_text # <<>> THEN <<overlap_text, elem_text>>
                                                     ELSE <<elem_text>>
                  IN  SemLoop(elements, i + 1, Append(out, JoinSpace(current_chunk)), next,
                              count_tokens(Flatten(next)), max_tokens, overlap_tokens)

\* _chunk_semantic_elements with a slip: the window left open when the
\* elements end is not flushed
chunk_semantic_elements_unflushed(elements, max_tokens, overlap_tokens) ==
    LET all == SemLoop(elements, 1, <<>>, <<>>, 0, max_tokens, overlap_tokens)
    IN  IF elements # <<>> /\ count_tokens(elements[Len(elements)]) <= max_tokens
        THEN SubSeq(all, 1, Len(all) - 1)
        ELSE all

chunk_semantic_elements(elements, max_tokens, overlap_tokens) ==
    SemLoop(elements, 1, <<>>, <<>>, 0, max_tokens, overlap_tokens)

\* the word loop with a slip: after a flush the next piece starts empty, and
\* the word that did not fit is lost (word_chunk = [])
RECURSIVE WordLoop_lost(_, _, _, _, _, _)
WordLoop_lost(words, i, out, word_chunk, word_chunk_tokens, max_tokens) ==
    IF i > Len(words)
    THEN [out |-> out, word_chunk |-> word_chunk, tokens |-> word_chunk_tokens]
    ELSE LET word == words[i]
             word_tokens == count_tokens_trailing(word)
         IN  IF word_chunk_tokens + word_tokens <= max_tokens
             THEN WordLoop_lost(words, i + 1, out, Append(word_chunk, word),
                                word_chunk_tokens + word_tokens, max_tokens)
             ELSE WordLoop_lost(words, i + 1,
                                IF word_chunk # <<>> THEN Append(out, <<word_chunk>>) ELSE out,
                                <<>>, 0, max_tokens)

\* _chunk_plain_text, the word loop of an oversized paragraph (lines 321-340)
RECURSIVE WordLoop(_, _, _, _, _, _)
WordLoop(words, i, out, word_chunk, word_chunk_tokens, max_tokens) ==
    IF i > Len(words)
    THEN [out |-> out, word_chunk |-> word_chunk, tokens |-> word_chunk_tokens]
    ELSE LET word == words[i]
             word_tokens == count_tokens_trailing(word)
         IN  IF word_chunk_tokens + word_tokens <= max_tokens
             THEN WordLoop(words, i + 1, out, Append(word_chunk, word),
                           word_chunk_tokens + word_tokens, max_tokens)
             ELSE WordLoop(words, i + 1,
                           IF word_chunk # <<>> THEN Append(out, <<word_chunk>>) ELSE out,
                           <<word>>, word_tokens, max_tokens)

\* text.split('\n\n'), stripped, the empty pieces dropped
Paragraphs(text) == SelectSeq(text, LAMBDA p : p # <<>>)

\* _chunk_plain_text: the loop over paragraphs, then the final flush
RECURSIVE PlainLoop(_, _, _, _, _, _, _)
PlainLoop(paragraphs, i, out, current_chunk, current_tokens, max_tokens, overlap_tokens) ==
    IF i > Len(paragraphs)
    THEN IF current_chunk # <<>> THEN Append(out, current_chunk) ELSE out
    ELSE LET para == paragraphs[i]
             para_tokens == count_tokens(para)
         IN  IF para_tokens > max_tokens
             THEN LET flushed == IF current_chunk # <<>> THEN Append(out, current_chunk)
                                                         ELSE out
                      w == WordLoop(para, 1, flushed, <<>>, 0, max_tokens)
                  IN  IF w.word_chunk # <<>>
                      THEN PlainLoop(paragraphs, i + 1, w.out, <<w.word_chunk>>, w.tokens,
                                     max_tokens, overlap_tokens)
                      ELSE PlainLoop(paragraphs, i + 1, w.out, <<>>, 0,
                                     max_tokens, overlap_tokens)
             ELSE IF current_tokens + para_tokens <= max_tokens
             THEN PlainLoop(paragraphs, i + 1, out, Append(current_chunk, para),
                            current_tokens + para_tokens, max_tokens, overlap_tokens)
             ELSE LET flushed == IF current_chunk # <<>> THEN Append(out, current_chunk)
                                                         ELSE out
                      overlap_text == get_overlap_text(current_chunk, overlap_tokens)
                      next == IF overlap_text # <<>> THEN <<overlap_text, para>>
                                                     ELSE <<para>>
                  IN  PlainLoop(paragraphs, i + 1, flushed, next,
                                count_tokens(Flatten(next)), max_tokens, overlap_tokens)

chunk_plain_text(text, max_tokens, overlap_tokens) ==
    PlainLoop(Paragraphs(text), 1, <<>>, <<>>, 0, max_tokens, overlap_tokens)


-----------------------------------------------------------------------------
(* Chunk identity, checksum and chunk dictionaries *)

\* hashlib.sha256(...).hexdigest(): equal exactly on equal inputs
Sha256(x) == <<"sha256", x>>

\* The position keys _generate_chunk_id is given: str(chunk_index), f"table_{idx}"
IndexKey(k) == <<"", k>>
TableKey(k) == <<"table_", k>>

\* _generate_chunk_id: uuid5 of "<document checksum>_<position key>"
generate_chunk_id(doc, key) == <<"uuid5", doc.checksum, key>>

\* dict.update: the keys of n are added to m, and replace the ones m has
DictUpdate(m, n) ==
    [k \in DOMAIN m \cup DOMAIN n |-> IF k \in DOMAIN n THEN n[k] ELSE m[k]]

\* line 469: the keys of extracted_data a chunk takes over
AllowList == {"fund_name", "nav_value", "aum", "risk_profile"}

\* lines 466-470: the part of document['extracted_data'] on the allow-list
Inherited(doc) ==
    [k \in DOMAIN doc.extracted_data \cap AllowList |-> doc.extracted_data[k]]

\* _create_chunk_dict with a slip: the identifier is drawn from the clock
\* (uuid1) instead of the names (uuid5)
create_chunk_dict_uuid1(content, chunk_index, doc, extra_metadata, t) ==
    [chunk_id |-> <<"uuid1", t>>,
     content |-> content,
     metadata |-> DictUpdate([parent_document_id |-> doc.checksum,
                              file_type |-> doc.file_type,
                              chunk_index |-> chunk_index,
                              created_at |-> t,
                              has_table |-> FALSE,
                              page_number |-> extra_metadata],
                             Inherited(doc)),
     checksum |-> Sha256(content),
     token_count |-> ContentTokens(content)]

\* _create_chunk_dict; extra_metadata is <<>> (None) or <<page_number>>
create_chunk_dict(content, chunk_index, doc, extra_metadata, t) ==
    [chunk_id |-> generate_chunk_id(doc, IndexKey(chunk_index)),
     content |-> content,
     metadata |-> DictUpdate([parent_document_id |-> doc.checksum,
                              file_type |-> doc.file_type,
                              chunk_index |-> chunk_index,
                              created_at |-> t,
                              has_table |-> FALSE,
                              page_number |-> extra_metadata],
                             Inherited(doc)),
     checksum |-> Sha256(content),
     token_count |-> ContentTokens(content)]

\* the text chunks of one windowing pass, chunk_index counted from 0
TextChunks(contents, doc, extra_metadata, t) ==
    [k \in 1..Len(contents) |-> create_chunk_dict(contents[k], k - 1, doc, extra_metadata, t)]

\* _create_table_chunks: these dictionaries carry no 'checksum' key
create_table_chunks(tables, doc, t) ==
    [k \in 1..Len(tables) |->
        [chunk_id |-> generate_chunk_id(doc, TableKey(k - 1)),
         content |-> <<tables[k]>>,
         metadata |-> [parent_document_id |-> doc.checksum,
                       file_type |-> doc.file_type,
                       chunk_index |-> k - 1,
                       created_at |-> t,
                       has_table |-> TRUE,
                       page_number |-> <<>>],
         token_count |-> ContentTokens(<<tables[k]>>)]]

\* _chunk_html_document
chunk_html_document(doc, c, t) ==
    LET contents == IF doc.semantic_elements # <<>>
                    THEN chunk_semantic_elements(doc.semantic_elements, c.max_tokens,
                                                 OverlapTokens(c))
                    ELSE chunk_plain_text(doc.plain_text, c.max_tokens, OverlapTokens(c))
        text_chunks == TextChunks(contents, doc, <<>>, t)
    IN  IF doc.tables # <<>> /\ c.preserve_verbatim
        THEN text_chunks \o create_table_chunks(doc.tables, doc, t)
        ELSE text_chunks

\* A page whose 'page_number' key, or an element's 'text' key, is missing raises KeyError
PageRaises(pg) == ~pg.well_formed

\* _chunk_pdf_document, one turn of the loop over pages: the elements joined by
\* '\n' are one paragraph
chunk_pdf_page(pg, doc, c, t) ==
    TextChunks(chunk_plain_text(<<Flatten(pg.elements)>>, c.max_tokens, OverlapTokens(c)),
               doc, <<pg.page_number>>, t)

RECURSIVE PdfLoop(_, _, _, _, _)
PdfLoop(doc, i, out, c, t) ==
    IF i > Len(doc.pages) THEN [raised |-> FALSE, chunks |-> out]
    ELSE IF PageRaises(doc.pages[i]) THEN [raised |-> TRUE, chunks |-> <<>>]
    ELSE PdfLoop(doc, i + 1, out \o chunk_pdf_page(doc.pages[i], doc, c, t), c, t)

\* A key of chunking.yml that is missing, or whose value is null or of a type
\* the arithmetic of line 138-139 rejects, raises where it is read:
\* token_limits and overlap at lines 137-138, table_handling at line 181 and
\* only for an html document that has tables.  Such a key is left out of c.
ConfigRaises(c, doc) ==
    \/ "max_tokens" \notin DOMAIN c
    \/ "overlap_percentage" \notin DOMAIN c
    \/ /\ doc.file_type = "html"
       /\ doc.tables # <<>>
       /\ "preserve_verbatim" \notin DOMAIN c

\* create_chunks: the chunk list, or the exception leaving it
create_chunks(doc, c, t) ==
    IF ConfigRaises(c, doc) THEN [raised |-> TRUE, chunks |-> <<>>]
    ELSE IF doc.file_type = "html"
    THEN [raised |-> FALSE, chunks |-> chunk_html_document(doc, c, t)]
    ELSE IF doc.file_type = "pdf" THEN PdfLoop(doc, 1, <<>>, c, t)
    ELSE [raised |-> FALSE, chunks |-> <<>>]

-----------------------------------------------------------------------------
(* Version ledger *)

\* check_chunk_diff with a slip: a changed chunk keeps the stored version
check_chunk_diff_nobump(chunk, L) ==
    IF chunk.chunk_id \notin DOMAIN L THEN <<"new", 1>>
    ELSE IF L[chunk.chunk_id].checksum # chunk.checksum
         THEN <<"updated", L[chunk.chunk_id].version>>
         ELSE <<"unchanged", L[chunk.chunk_id].version>>

\* check_chunk_diff, after the two key lookups of lines 515-516
check_chunk_diff(chunk, L) ==
    IF chunk.chunk_id \notin DOMAIN L THEN <<"new", 1>>
    ELSE IF L[chunk.chunk_id].checksum # chunk.checksum
         THEN <<"updated", L[chunk.chunk_id].version + 1>>
         ELSE <<"unchanged", L[chunk.chunk_id].version>>

\* chunk['checksum'] of a dictionary without that key raises KeyError
DiffRaises(chunk) == "checksum" \notin DOMAIN chunk

\* update_chunk_checksum with a slip: two of the seven positional values
\* (parent_document_id, checksum) are bound in the wrong order
update_chunk_checksum_swapped(chunk, version, L, t) ==
    [id \in DOMAIN L \cup {chunk.chunk_id} |->
        IF id = chunk.chunk_id
        THEN [parent_document_id |-> chunk.checksum,
              checksum |-> chunk.metadata.parent_document_id,
              version |-> version,
              created_at |-> chunk.metadata.created_at,
              updated_at |-> t,
              ingested_at |-> t]
        ELSE L[id]]

\* update_chunk_checksum with a slip: every write counts as a new version
update_chunk_checksum_bump(chunk, version, L, t) ==
    [id \in DOMAIN L \cup {chunk.chunk_id} |->
        IF id = chunk.chunk_id
        THEN [parent_document_id |-> chunk.metadata.parent_document_id,
              checksum |-> chunk.checksum,
              version |-> version + 1,
              created_at |-> chunk.metadata.created_at,
              updated_at |-> t,
              ingested_at |-> t]
        ELSE L[id]]

\* update_chunk_checksum: INSERT OR REPLACE of the whole row, committed
update_chunk_checksum(chunk, version, L, t) ==
    [id \in DOMAIN L \cup {chunk.chunk_id} |->
        IF id = chunk.chunk_id
        THEN [parent_document_id |-> chunk.metadata.parent_document_id,
              checksum |-> chunk.checksum,
              version |-> version,
              created_at |-> chunk.metadata.created_at,
              updated_at |-> t,
              ingested_at |-> t]
        ELSE L[id]]


-----------------------------------------------------------------------------
(* Parsed documents *)

\* parser_agent: 'checksum' is the sha256 of the raw file the fields were parsed
\* from; no selector of the section matched (extracted_data is {})
ParsedDocument(file_type, semantic_elements, plain_text, pages, tables) ==
    [checksum |-> Sha256(<<file_type, semantic_elements, plain_text, pages, tables>>),
     file_type |-> file_type,
     semantic_elements |-> semantic_elements,
     plain_text |-> plain_text,
     pages |-> pages,
     tables |-> tables,
     extracted_data |-> <<>>]

\* the document parsed from a file in which the selectors of the section
\* found the fields ed (parser_agent.py:96-101, 155)
WithExtracted(d, ed) ==
    [d EXCEPT !.extracted_data = ed, !.checksum = Sha256(<<d.checksum, ed>>)]

\* the texts of up to n words
Texts(n) == SeqsUpTo(Words, n)

\* the sequences of up to u units (elements, paragraphs, renderings of tables)
\* holding up to t words in all; a unit may be empty
RECURSIVE Units(_, _)
Units(u, t) ==
    IF u = 0 THEN {<<>>}
    ELSE {<<>>} \cup UNION {{<<x>> \o rest : rest \in Units(u - 1, t - Len(x))} :
                               x \in Texts(t)}

\* what the chunker is run on: html documents with semantic elements, html
\* documents with plain text only, and pdf documents of one page, of up to u
\* units and t words; the pdf document without pages
ChunkerDocuments(u, t) ==
    {ParsedDocument("pdf", <<>>, <<>>, <<>>, <<>>)}
    \cup {ParsedDocument("html", e, <<>>, <<>>, <<>>) : e \in Units(u, t)}
    \cup {ParsedDocument("html", <<>>, q, <<>>, <<>>) : q \in Units(u, t)}
    \cup {ParsedDocument("pdf", <<>>, <<>>,
                         <<[page_number |-> 1, elements |-> e, well_formed |-> TRUE]>>, <<>>) :
              e \in Units(u, t)}

\* documents that declare tables, after one short element or page: up to u
\* tables whose renderings hold up to t words in all
TableDocuments(u, t) ==
    {ParsedDocument("html", <<<<1>>>>, <<>>, <<>>, tb) : tb \in Units(u, t) \ {<<>>}}
    \cup {ParsedDocument("pdf", <<>>, <<>>,
                         <<[page_number |-> 1, elements |-> <<<<1>>>>, well_formed |-> TRUE]>>,
                         tb) :
              tb \in Units(u, t) \ {<<>>}}

\* chunking.yml: token_limits.max_tokens_per_chunk, overlap.percentage,
\* table_handling.preserve_verbatim
ChunkerConfigs ==
    {[max_tokens |-> m, overlap_percentage |-> o, preserve_verbatim |-> v] :
        m \in {2, 3}, o \in {0, 50}, v \in BOOLEAN}

\* what the orchestrator finds in its input directory: small html documents
\* (some with a table) and pdf documents of up to MaxPages pages
DocTexts == {<<1>>, <<2>>}

\* a page is well formed with one of the texts, or malformed: chunking it
\* raises before its text is read
PageKinds ==
    {[elements |-> <<x>>, well_formed |-> TRUE] : x \in DocTexts}
    \cup {[elements |-> <<>>, well_formed |-> FALSE]}

\* n pages; a malformed page is the last one (no page after it is ever read)
Pages(n) ==
    {[k \in 1..n |-> [page_number |-> k, elements |-> pk[k].elements,
                      well_formed |-> pk[k].well_formed]] :
        pk \in {f \in [1..n -> PageKinds] : \A k \in 1..(n - 1) : f[k].well_formed}}

Documents ==
    {ParsedDocument("html", e, <<>>, <<>>, <<>>) : e \in SeqsUpTo(DocTexts, 2)}
    \cup {ParsedDocument("html", e, <<>>, <<>>, <<<<1, 1, 1>>>>) : e \in SeqsUpTo(DocTexts, 1)}
    \cup UNION {{ParsedDocument("pdf", <<>>, <<>>, pgs, <<>>) : pgs \in Pages(n)} :
                   n \in 0..MaxPages}

DefaultConfig == [max_tokens |-> 2, overlap_percentage |-> 50, preserve_verbatim |-> TRUE]

\* chunking.yml files that lack token_limits, overlap or table_handling (or
\* hold null there)
BadConfigs ==
    {[overlap_percentage |-> 50, preserve_verbatim |-> TRUE],
     [max_tokens |-> 2, preserve_verbatim |-> TRUE],
     [max_tokens |-> 2, overlap_percentage |-> 50]}

ValidConfig(c) == DOMAIN c = DOMAIN DefaultConfig

NoDocument == ParsedDocument("none", <<>>, <<>>, <<>>, <<>>)
NoDiff == <<"none", 0>>
NoResult == [outcome |-> "none"]
NoCall == [op |-> "none", chunk |-> <<>>, status |-> "none", version |-> 0, again |-> FALSE]

\* self.stats as __init__ sets it (lines 77-84)
NoStats == [total_documents |-> 0, total_chunks |-> 0, new_chunks |-> 0,
            updated_chunks |-> 0, unchanged_chunks |-> 0, failed_chunks |-> 0]

NoReport == [documents_processed |-> 0, stats |-> NoStats, results |-> <<>>, written |-> FALSE]

\* a file of the input directory that is not JSON: json.load raises on it
CorruptFile == ParsedDocument("not json", <<>>, <<>>, <<>>, <<>>)

LoadRaises(d) == d.file_type = "not json"


-----------------------------------------------------------------------------
(* process_document, one orchestrator (worker) w.  Every call of
   check_chunk_diff and of update_chunk_checksum opens its own connection and
   commits on its own, so each is one step. *)

Workers == DOMAIN pc

Idle(W, c) ==
    /\ cfg = c
    /\ ledger = <<>>
    /\ now = 0
    /\ pc = [w \in W |-> "idle"]
    /\ document = [w \in W |-> NoDocument]
    /\ page = [w \in W |-> 0]
    /\ chunks = [w \in W |-> <<>>]
    /\ idx = [w \in W |-> 0]
    /\ diff = [w \in W |-> NoDiff]
    /\ to_ingest = [w \in W |-> <<>>]
    /\ result = [w \in W |-> NoResult]
    /\ base = [w \in W |-> <<>>]
    /\ processed = {}
    /\ sent = {}
    /\ api = NoCall
    /\ stats = [w \in W |-> NoStats]
    /\ statuses = [w \in W |-> <<>>]
    /\ ingested = [w \in W |-> <<>>]
    /\ rpc = [w \in W |-> "none"]
    /\ json_files = [w \in W |-> <<>>]
    /\ results = [w \in W |-> <<>>]
    /\ report_files = [w \in W |-> 0]
    /\ report = [w \in W |-> NoReport]

\* str(document_path): a file of a run is named by its place in json_files;
\* 0 names the file of a direct call of process_document
DocumentPath(w) == IF rpc[w] = "running" THEN Len(results[w]) + 1 ELSE 0

\* process_document returns r; inside run_orchestrator line 692 appends it
Return(w, r) ==
    /\ pc' = [pc EXCEPT ![w] = "idle"]
    /\ result' = [result EXCEPT ![w] = r]
    /\ results' = [results EXCEPT ![w] = IF rpc[w] = "running" THEN Append(@, r) ELSE @]

\* the except clause with a slip: the failure is not counted
FailedUncounted(w, stage) ==
    /\ Return(w, [outcome |-> "error", stage |-> stage, document |-> DocumentPath(w)])
    /\ stats' = stats

\* lines 653-656: the except clause of process_document
Failed(w, stage) ==
    /\ Return(w, [outcome |-> "error", stage |-> stage, document |-> DocumentPath(w)])
    /\ stats' = [stats EXCEPT ![w].failed_chunks = @ + 1]

\* self.stats when process_document is entered.  Every caller in the
\* repository constructs a ChunkOrchestrator and makes one call on it: one
\* run_orchestrator (chunk_agent.py:730-739, manage.py:92-100, the Airflow
\* task) or one process_document (tests/unit/test_chunk_orchestrator.py:49,
\* 240), so a direct call finds the counters of __init__.
StatsAtEntry(w) == IF rpc[w] = "running" THEN stats[w] ELSE NoStats

\* lines 612-616: the file is opened and read; time has passed since the last
\* one.  json.load of a file that is not JSON raises.
BeginDocument(w, d) ==
    /\ pc[w] = "idle"
    /\ now < MaxTime
    /\ now' = now + 1
    /\ document' = [document EXCEPT ![w] = d]
    /\ page' = [page EXCEPT ![w] = 0]
    /\ chunks' = [chunks EXCEPT ![w] = <<>>]
    /\ idx' = [idx EXCEPT ![w] = 0]
    /\ diff' = [diff EXCEPT ![w] = NoDiff]
    /\ to_ingest' = [to_ingest EXCEPT ![w] = <<>>]
    /\ statuses' = [statuses EXCEPT ![w] = <<>>]
    /\ ingested' = [ingested EXCEPT ![w] = <<>>]
    /\ base' = [base EXCEPT ![w] = ledger]
    /\ IF LoadRaises(d)
       THEN /\ Return(w, [outcome |-> "error", stage |-> "loading",
                          document |-> DocumentPath(w)])
            /\ stats' = [stats EXCEPT ![w] =
                            [StatsAtEntry(w) EXCEPT !.failed_chunks = @ + 1]]
       ELSE /\ pc' = [pc EXCEPT ![w] = "chunking"]
            /\ result' = [result EXCEPT ![w] = NoResult]
            /\ stats' = [stats EXCEPT ![w] = StatsAtEntry(w)]
            /\ UNCHANGED results
    /\ UNCHANGED <<cfg, ledger, processed, sent, api, run_vars>>

\* create_chunks raises on the configuration it reads
ConfigError(w) ==
    /\ pc[w] = "chunking"
    /\ ConfigRaises(cfg, document[w])
    /\ Failed(w, "config")
    /\ UNCHANGED <<cfg, ledger, now, document, page, chunks, idx, diff, to_ingest, base,
                   processed, sent, api, statuses, ingested, run_vars>>

\* _chunk_pdf_document: one page is chunked
ChunkPage(w) ==
    /\ pc[w] = "chunking"
    /\ ~ConfigRaises(cfg, document[w])
    /\ document[w].file_type = "pdf"
    /\ page[w] < Len(document[w].pages)
    /\ ~PageRaises(document[w].pages[page[w] + 1])
    /\ chunks' = [chunks EXCEPT ![w] =
                     @ \o chunk_pdf_page(document[w].pages[page[w] + 1], document[w], cfg, now)]
    /\ page' = [page EXCEPT ![w] = @ + 1]
    /\ UNCHANGED <<cfg, ledger, now, pc, document, idx, diff, to_ingest, result, base,
                   processed, sent, api, stats, statuses, ingested, results, run_vars>>

\* A page that raises is logged and skipped, and the chunks produced so far
\* are handed on (an except clause inside the loop over pages)
ChunkPageSkipped(w) ==
    /\ pc[w] = "chunking"
    /\ ~ConfigRaises(cfg, document[w])
    /\ document[w].file_type = "pdf"
    /\ page[w] < Len(document[w].pages)
    /\ PageRaises(document[w].pages[page[w] + 1])
    /\ pc' = [pc EXCEPT ![w] = "classify"]
    /\ UNCHANGED <<cfg, ledger, now, document, page, chunks, idx, diff, to_ingest, result,
                   base, processed, sent, api, stats, statuses, ingested, results, run_vars>>

\* _chunk_pdf_document raises on a page: create_chunks never returns
ChunkPageRaises(w) ==
    /\ pc[w] = "chunking"
    /\ ~ConfigRaises(cfg, document[w])
    /\ document[w].file_type = "pdf"
    /\ page[w] < Len(document[w].pages)
    /\ PageRaises(document[w].pages[page[w] + 1])
    /\ Failed(w, "chunking")
    /\ UNCHANGED <<cfg, ledger, now, document, page, chunks, idx, diff, to_ingest, base,
                   processed, sent, api, statuses, ingested, run_vars>>

\* lines 619-620: create_chunks returns the complete list, which is counted
ChunksCreated(w) ==
    /\ pc[w] = "chunking"
    /\ ~ConfigRaises(cfg, document[w])
    /\ document[w].file_type = "pdf" => page[w] = Len(document[w].pages)
    /\ chunks' = [chunks EXCEPT ![w] =
                     IF document[w].file_type = "html"
                     THEN chunk_html_document(document[w], cfg, now)
                     ELSE @]
    /\ stats' = [stats EXCEPT ![w].total_chunks = @ + Len(chunks'[w])]
    /\ pc' = [pc EXCEPT ![w] = "classify"]
    /\ UNCHANGED <<cfg, ledger, now, document, page, idx, diff, to_ingest, result, base,
                   processed, sent, api, statuses, ingested, results, run_vars>>

\* process_document with a slip: no chunk is recorded before the ingestion
AfterDiffUnrecorded(w, d) == "classify"

\* Where process_document puts the chunk once check_chunk_diff has answered
\* (lines 627-635)
AfterDiff(w, d) == IF d[1] = "unchanged" THEN "classify" ELSE "record"

\* chunks_to_ingest with a slip: the unchanged chunks are queued too
QueuedAll(queue, chunk, status) == Append(queue, chunk)

\* lines 627-635: chunks_to_ingest after the classification of chunk
Queued(queue, chunk, status) ==
    IF status = "unchanged" THEN queue ELSE Append(queue, chunk)

\* the counting with a slip: the 'unchanged' branch goes on to the next chunk
\* before it has counted
Counted_unchanged_skipped(st, status) ==
    IF status = "new" THEN [st EXCEPT !.new_chunks = @ + 1]
    ELSE IF status = "updated" THEN [st EXCEPT !.updated_chunks = @ + 1]
    ELSE st

\* lines 627-634: the counter of self.stats a classification raises
Counted(st, status) ==
    IF status = "new" THEN [st EXCEPT !.new_chunks = @ + 1]
    ELSE IF status = "updated" THEN [st EXCEPT !.updated_chunks = @ + 1]
    ELSE [st EXCEPT !.unchanged_chunks = @ + 1]

\* lines 624-635: check_chunk_diff of the next chunk
Classify(w) ==
    /\ pc[w] = "classify"
    /\ idx[w] < Len(chunks[w])
    /\ LET chunk == chunks[w][idx[w] + 1] IN
        /\ ~DiffRaises(chunk)
        /\ LET d == check_chunk_diff(chunk, ledger) IN
            /\ diff' = [diff EXCEPT ![w] = d]
            /\ pc' = [pc EXCEPT ![w] = AfterDiff(w, d)]
            /\ idx' = [idx EXCEPT ![w] = IF AfterDiff(w, d) = "classify" THEN @ + 1 ELSE @]
            /\ to_ingest' = [to_ingest EXCEPT ![w] = Queued(@, chunk, d[1])]
            /\ stats' = [stats EXCEPT ![w] = Counted(@, d[1])]
            /\ statuses' = [statuses EXCEPT ![w] = Append(@, d[1])]
    /\ UNCHANGED <<cfg, ledger, now, document, page, chunks, result, base, processed, sent, api,
                   ingested, results, run_vars>>

\* line 516 raises KeyError for a chunk without 'checksum'
ClassifyRaises(w) ==
    /\ pc[w] = "classify"
    /\ idx[w] < Len(chunks[w])
    /\ DiffRaises(chunks[w][idx[w] + 1])
    /\ Failed(w, "classify")
    /\ UNCHANGED <<cfg, ledger, now, document, page, chunks, idx, diff, to_ingest, base,
                   processed, sent, api, statuses, ingested, run_vars>>

\* line 638: update_chunk_checksum with the version check_chunk_diff gave
Record(w) ==
    /\ pc[w] = "record"
    /\ ledger' = update_chunk_checksum(chunks[w][idx[w] + 1], diff[w][2], ledger, now)
    /\ idx' = [idx EXCEPT ![w] = @ + 1]
    /\ pc' = [pc EXCEPT ![w] = "classify"]
    /\ UNCHANGED <<cfg, now, document, page, chunks, diff, to_ingest, result, base,
                   processed, sent, api, stats, statuses, ingested, results, run_vars>>

\* sqlite3 raises inside check_chunk_diff or update_chunk_checksum (before any
\* commit of that call)
LedgerError(w) ==
    /\ \/ pc[w] = "classify" /\ idx[w] < Len(chunks[w])
       \/ pc[w] = "record"
    /\ Failed(w, "ledger")
    /\ UNCHANGED <<cfg, ledger, now, document, page, chunks, idx, diff, to_ingest, base,
                   processed, sent, api, statuses, ingested, run_vars>>

\* ingest_to_agentset: self.agentset_client is None in every build (lines
\* 21-27, 70-75), so the mock branch answers 'success'
ingest_to_agentset(batch) == "success"

\* lines 640-651: the ingestion call, when there is something to ingest, and
\* the result
Ingest(w) ==
    /\ pc[w] = "classify"
    /\ idx[w] = Len(chunks[w])
    /\ ingested' = [ingested EXCEPT ![w] =
                       IF to_ingest[w] # <<>> THEN Append(@, to_ingest[w]) ELSE @]
    /\ Return(w, [outcome |-> "ok",
                  document |-> DocumentPath(w),
                  chunks_created |-> Len(chunks[w]),
                  chunks_ingested |-> Len(to_ingest[w]),
                  ingestion_result |-> IF to_ingest[w] # <<>>
                                       THEN ingest_to_agentset(to_ingest[w])
                                       ELSE "skipped"])
    /\ processed' = processed \cup {document[w].checksum}
    /\ sent' = sent \cup {<<to_ingest[w][k].chunk_id, to_ingest[w][k].checksum>> :
                            k \in 1..Len(to_ingest[w])}
    /\ UNCHANGED <<cfg, ledger, now, document, page, chunks, idx, diff, to_ingest, base,
                   api, stats, statuses, run_vars>>

\* One orchestrator, documents one after the other (run after run on one ledger)
Init == Idle({1}, DefaultConfig)

Next ==
    \/ \E w \in Workers, d \in Documents : BeginDocument(w, d)
    \/ \E w \in Workers : ChunkPage(w)
    \/ \E w \in Workers : ChunkPageRaises(w)
    \/ \E w \in Workers : ChunksCreated(w)
    \/ \E w \in Workers : Classify(w)
    \/ \E w \in Workers : ClassifyRaises(w)
    \/ \E w \in Workers : Record(w)
    \/ \E w \in Workers : LedgerError(w)
    \/ \E w \in Workers : Ingest(w)

Spec == Init /\ [][Next]_vars


-----------------------------------------------------------------------------
(* run_orchestrator: one orchestrator object, run after run over the files of
   its input directory *)

\* a chunk_report_*.json an earlier run saved in input_dir: JSON without a
\* 'file_type'
ReportFile == ParsedDocument("report", <<>>, <<>>, <<>>, <<>>)

\* what the parser may have left in the input directory: the file that is not
\* JSON, html documents of one element, one of them with a table, and pdf
\* documents of one page, well formed or not
RunFiles ==
    {CorruptFile,
     ParsedDocument("html", <<<<1>>>>, <<>>, <<>>, <<>>),
     ParsedDocument("html", <<<<2>>>>, <<>>, <<>>, <<>>),
     ParsedDocument("html", <<<<1>>>>, <<>>, <<>>, <<<<1, 1, 1>>>>),
     ParsedDocument("pdf", <<>>, <<>>,
                    <<[page_number |-> 1, elements |-> <<<<1>>>>, well_formed |-> TRUE]>>, <<>>),
     ParsedDocument("pdf", <<>>, <<>>,
                    <<[page_number |-> 1, elements |-> <<>>, well_formed |-> FALSE]>>, <<>>)}

\* lines 672-683: with sections only the section directories are listed; without,
\* rglob lists input_dir itself, where the reports are, and the filter drops
\* the names starting with 'parser_report' only
ListFiles(files, with_sections, n_reports) ==
    IF with_sections THEN files ELSE files \o [k \in 1..n_reports |-> ReportFile]

\* lines 668-687, for some content of the input directory, on a newly
\* constructed orchestrator (self.stats as __init__ sets it) or on the one
\* that made the run before (self.stats as that run left it: only
\* total_documents is assigned, line 685)
StartRun(w) ==
    /\ rpc[w] = "none"
    /\ pc[w] = "idle"
    /\ report_files[w] < MaxTime
    /\ \E files \in SeqsUpTo(RunFiles, MaxTime - now), with_sections \in BOOLEAN,
          same_instance \in BOOLEAN :
        LET listed == ListFiles(files, with_sections, report_files[w]) IN
            /\ now + Len(listed) <= MaxTime
            /\ json_files' = [json_files EXCEPT ![w] = listed]
            /\ stats' = [stats EXCEPT ![w] =
                            [(IF same_instance THEN @ ELSE NoStats)
                                EXCEPT !.total_documents = Len(listed)]]
    /\ results' = [results EXCEPT ![w] = <<>>]
    /\ report' = [report EXCEPT ![w] = NoReport]
    /\ rpc' = [rpc EXCEPT ![w] = "running"]
    /\ UNCHANGED <<cfg, ledger, now, pc, document, page, chunks, idx, diff, to_ingest,
                   result, base, processed, sent, api, statuses, ingested, report_files>>

\* lines 690-691: process_document of the next file
NextDocument(w) ==
    /\ rpc[w] = "running"
    /\ Len(results[w]) < Len(json_files[w])
    /\ BeginDocument(w, json_files[w][Len(results[w]) + 1])

\* lines 694-713: the report is built, saved in input_dir and returned
FinishRun(w) ==
    /\ rpc[w] = "running"
    /\ pc[w] = "idle"
    /\ Len(results[w]) = Len(json_files[w])
    /\ report' = [report EXCEPT ![w] =
                     [documents_processed |-> Len(json_files[w]),
                      stats |-> stats[w],
                      results |-> results[w],
                      written |-> TRUE]]
    /\ report_files' = [report_files EXCEPT ![w] = @ + 1]
    /\ rpc' = [rpc EXCEPT ![w] = "none"]
    /\ UNCHANGED <<cfg, ledger, now, pc, document, page, chunks, idx, diff, to_ingest,
                   result, base, processed, sent, api, stats, statuses, ingested, json_files,
                   results>>

\* __init__ loads whatever chunking.yml holds (lines 60, 86-89)
InitRun == \E c \in {DefaultConfig} \cup BadConfigs : Idle({1}, c)

NextRun ==
    \/ \E w \in Workers : StartRun(w)
    \/ \E w \in Workers : NextDocument(w)
    \/ \E w \in Workers : ConfigError(w)
    \/ \E w \in Workers : ChunkPage(w)
    \/ \E w \in Workers : ChunkPageRaises(w)
    \/ \E w \in Workers : ChunksCreated(w)
    \/ \E w \in Workers : Classify(w)
    \/ \E w \in Workers : ClassifyRaises(w)
    \/ \E w \in Workers : Record(w)
    \/ \E w \in Workers : LedgerError(w)
    \/ \E w \in Workers : Ingest(w)
    \/ \E w \in Workers : FinishRun(w)

SpecRun == InitRun /\ [][NextRun]_vars

\* a file on which process_document is bound to raise: it does not load, a
\* page of it raises, or one of its chunks has no 'checksum'
MustFail(d) ==
    \/ LoadRaises(d)
    \/ ConfigRaises(cfg, d)
    \/ create_chunks(d, cfg, 0).raised
    \/ \E k \in 1..Len(create_chunks(d, cfg, 0).chunks) :
           DiffRaises(create_chunks(d, cfg, 0).chunks[k])

IsError(r) == r.outcome = "error"

\* C11: whatever files of the list raise (at loading, chunking, classification
\* or recording), the run goes on to the next file; there is one result per
\* file, in order, each naming its file, a file that raises has an error
\* result, the report holds exactly these results, and failed_chunks grows by
\* exactly 1 with each error result and not otherwise.
C11_State ==
    \A w \in Workers :
        /\ Len(results[w]) <= Len(json_files[w])
        /\ \A k \in 1..Len(results[w]) :
            /\ results[w][k].document = k
            /\ MustFail(json_files[w][k]) => IsError(results[w][k])
        /\ (rpc[w] = "running" /\ pc[w] = "idle" /\ Len(results[w]) < Len(json_files[w]))
            => ENABLED NextDocument(w)
        /\ report[w].written =>
            /\ report[w].results = results[w]
            /\ Len(report[w].results) = Len(json_files[w])
            /\ report[w].documents_processed = Len(json_files[w])

C11_Step ==
    \A w \in Workers :
        /\ rpc[w] = "running" /\ rpc'[w] = "running" => json_files'[w] = json_files[w]
        /\ rpc[w] = "running" =>
            \/ /\ results'[w] = results[w]
               /\ stats'[w].failed_chunks = stats[w].failed_chunks
            \/ /\ Len(results'[w]) = Len(results[w]) + 1
               /\ SubSeq(results'[w], 1, Len(results[w])) = results[w]
               /\ stats'[w].failed_chunks = stats[w].failed_chunks
                      + (IF IsError(results'[w][Len(results'[w])]) THEN 1 ELSE 0)

C11_RunNeverAborts == [](C11_State) /\ [][C11_Step]_vars

\* a run over two files is reported: the first did not load, the second raised
\* at classification, and both failures are counted
C11_Witness ==
    \E w \in Workers :
        /\ report[w].written
        /\ Len(report[w].results) = 2
        /\ report[w].results[1].outcome = "error" /\ report[w].results[1].stage = "loading"
        /\ report[w].results[2].outcome = "error" /\ report[w].results[2].stage = "classify"
        /\ report[w].stats.failed_chunks = 2

\* the sum of a count over the results that carry it (an error result has
\* neither chunks_created nor chunks_ingested)
RECURSIVE SumOfResults(_, _)
SumOfResults(rs, field) ==
    IF rs = <<>> THEN 0
    ELSE (IF field \in DOMAIN Head(rs) THEN Head(rs)[field] ELSE 0)
             + SumOfResults(Tail(rs), field)

\* C24: in the report of every run, the first run of an orchestrator or a
\* later one, total_chunks is the sum of chunks_created over the report's own
\* results, and new_chunks + updated_chunks the sum of chunks_ingested.
C24_PerRunCounters ==
    \A w \in Workers :
        report[w].written =>
            /\ report[w].stats.total_chunks
                   = SumOfResults(report[w].results, "chunks_created")
            /\ report[w].stats.new_chunks + report[w].stats.updated_chunks
                   = SumOfResults(report[w].results, "chunks_ingested")

\* the parsed documents among the files: all but the reports of earlier runs
ParsedFiles(files) == SelectSeq(files, LAMBDA f : f # ReportFile)

\* C27: the report a run saves in the input directory is not an input of any
\* later run: the files a run processes are the parsed documents, and
\* total_documents and documents_processed are their number, in every run.
C27_ReportNotAnInput ==
    \A w \in Workers :
        /\ rpc[w] = "running" =>
            /\ json_files[w] = ParsedFiles(json_files[w])
            /\ stats[w].total_documents = Len(ParsedFiles(json_files[w]))
        /\ report[w].written =>
            /\ report[w].documents_processed = Len(ParsedFiles(json_files[w]))
            /\ report[w].stats.total_documents = Len(ParsedFiles(json_files[w]))

\* the chunks the counters say were classified
Classifications(st) == st.new_chunks + st.updated_chunks + st.unchanged_chunks

\* the results of documents that failed before their chunks were counted
EarlyFailures(rs) ==
    Cardinality({k \in 1..Len(rs) :
                    IsError(rs[k]) /\ rs[k].stage \in {"loading", "config", "chunking"}})

\* C29: on one orchestrator, whatever documents it has processed,
\* new_chunks + updated_chunks + unchanged_chunks <= total_chunks; as long as
\* no document has failed after its chunks were created (every failure
\* counted happened before) the difference is exactly the chunks of the
\* document under way that are not classified yet, so 0 between documents;
\* and each classification adds 1 to exactly the counter of its status, a
\* document processed without error having all its chunks classified.
C29_State ==
    \A w \in Workers :
        /\ Classifications(stats[w]) <= stats[w].total_chunks
        /\ stats[w].failed_chunks = EarlyFailures(results[w]) =>
               stats[w].total_chunks - Classifications(stats[w])
                   = IF pc[w] \in {"classify", "record"}
                     THEN Len(chunks[w]) - Len(statuses[w])
                     ELSE 0
        /\ (pc[w] = "idle" /\ result[w].outcome = "ok") =>
               /\ Len(statuses[w]) = Len(chunks[w])
               /\ result[w].chunks_created = Len(chunks[w])

C29_Step ==
    \A w \in Workers :
        rpc[w] = "running" =>
            LET s == IF Len(statuses'[w]) = Len(statuses[w]) + 1
                     THEN statuses'[w][Len(statuses'[w])]
                     ELSE "none"
            IN  /\ stats'[w].new_chunks
                       = stats[w].new_chunks + (IF s = "new" THEN 1 ELSE 0)
                /\ stats'[w].updated_chunks
                       = stats[w].updated_chunks + (IF s = "updated" THEN 1 ELSE 0)
                /\ stats'[w].unchanged_chunks
                       = stats[w].unchanged_chunks + (IF s = "unchanged" THEN 1 ELSE 0)

C29_CountersPartition == [](C29_State) /\ [][C29_Step]_vars

\* a run over two documents is reported: the chunk of the first was
\* classified, the second failed at its second chunk, which stays unclassified
C29_Witness ==
    \E w \in Workers :
        /\ report[w].written
        /\ Len(report[w].results) = 2
        /\ report[w].results[1].outcome = "ok"
        /\ report[w].results[2].outcome = "error"
        /\ report[w].stats.total_chunks = 3
        /\ Classifications(report[w].stats) = 2

\* C19: with a chunking configuration that lacks max_tokens_per_chunk, the
\* overlap percentage or the preserve_verbatim switch (or holds an invalid
\* value there) the run stops before any document is processed: no document
\* is chunked, no result is produced and the ledger has no operation.
C19_ConfigErrorAborts ==
    ~ValidConfig(cfg) =>
        \A w \in Workers :
            /\ results[w] = <<>>
            /\ result[w] = NoResult
            /\ chunks[w] = <<>>
            /\ statuses[w] = <<>>
            /\ ledger = <<>>

-----------------------------------------------------------------------------
(* The chunker alone: create_chunks applied, twice, to every document of
   ChunkerDocuments and of TableDocuments under every configuration of
   ChunkerConfigs *)

InitChunk ==
    /\ cfg \in ChunkerConfigs
    /\ ledger = <<>>
    /\ now = 0
    /\ pc = [w \in {1, 2} |-> "input"]
    /\ \E d \in ChunkerDocuments(MaxUnits, MaxDocWords) \cup TableDocuments(MaxUnits, MaxDocWords) :
           document = [w \in {1, 2} |-> d]
    /\ page = [w \in {1, 2} |-> 0]
    /\ chunks = [w \in {1, 2} |-> <<>>]
    /\ idx = [w \in {1, 2} |-> 0]
    /\ diff = [w \in {1, 2} |-> NoDiff]
    /\ to_ingest = [w \in {1, 2} |-> <<>>]
    /\ result = [w \in {1, 2} |-> NoResult]
    /\ base = [w \in {1, 2} |-> <<>>]
    /\ processed = {}
    /\ sent = {}
    /\ api = NoCall
    /\ stats = [w \in {1, 2} |-> NoStats]
    /\ statuses = [w \in {1, 2} |-> <<>>]
    /\ ingested = [w \in {1, 2} |-> <<>>]
    /\ rpc = [w \in {1, 2} |-> "none"]
    /\ json_files = [w \in {1, 2} |-> <<>>]
    /\ results = [w \in {1, 2} |-> <<>>]
    /\ report_files = [w \in {1, 2} |-> 0]
    /\ report = [w \in {1, 2} |-> NoReport]

\* create_chunks(document), by one of two executions on the same document;
\* the clock has moved on when the other one is made
CreateChunks(w) ==
    /\ pc[w] = "input"
    /\ LET r == create_chunks(document[w], cfg, now) IN
        /\ chunks' = [chunks EXCEPT ![w] = r.chunks]
        /\ pc' = [pc EXCEPT ![w] = IF r.raised THEN "raised" ELSE "output"]
    /\ now' = now + 1
    /\ UNCHANGED <<cfg, ledger, document, page, idx, diff, to_ingest, result, base,
                   processed, sent, api, stats, statuses, ingested, results, run_vars>>

NextChunk == \E w \in Workers : CreateChunks(w)

SpecChunk == InitChunk /\ [][NextChunk]_vars

\* C1: every non-table chunk create_chunks returns has at most
\* max_tokens_per_chunk tokens, in the semantic-element path, the plain-text
\* path and for the pieces of an oversized unit.
C1_TokenBound ==
    pc[1] = "output" =>
        \A k \in 1..Len(chunks[1]) :
            ~chunks[1][k].metadata.has_table =>
                count_tokens(Flatten(chunks[1][k].content)) <= cfg.max_tokens


\* the chunks of cs with has_table set, in order
TableChunks(cs) == SelectSeq(cs, LAMBDA c : c.metadata.has_table)

\* C14: a document that declares n tables, html or pdf, gets exactly n chunks
\* with has_table set when preserve_verbatim is on, the k-th with the
\* rendering of the k-th table as its content, and none when it is off.
C14_TablesPreserved ==
    \A w \in Workers :
        pc[w] = "output" =>
            LET tc == TableChunks(chunks[w])
                tables == document[w].tables
            IN  IF cfg.preserve_verbatim
                THEN /\ Len(tc) = Len(tables)
                     /\ \A k \in 1..Len(tc) : tc[k].content = <<tables[k]>>
                ELSE tc = <<>>

UnitsOf(d) ==
    IF d.file_type = "html"
    THEN IF d.semantic_elements # <<>> THEN d.semantic_elements
                                       ELSE Paragraphs(d.plain_text)
    ELSE Paragraphs([k \in 1..Len(d.pages) |-> Flatten(d.pages[k].elements)])

\* the words of a chunk
ChunkWords(c) == Flatten(c.content)

\* chunk b begins with n >= 1 words that end chunk a
Overlaps(a, b) ==
    \E n \in 1..Len(ChunkWords(b)) :
        /\ n <= Len(ChunkWords(a))
        /\ SubSeq(ChunkWords(b), 1, n) = LastN(ChunkWords(a), n)

\* C18: a document made of one unit of more than max_tokens tokens, chunked
\* with a configured overlap, gets sub-chunks of at most max_tokens tokens
\* each, at least 3 of them when the unit has 3 * max_tokens tokens, and every
\* sub-chunk after the first begins with words that end its predecessor.
C18_OversizedUnitSplit ==
    \A w \in Workers :
        (/\ pc[w] = "output"
         /\ document[w].tables = <<>>
         /\ OverlapTokens(cfg) > 0
         /\ Len(UnitsOf(document[w])) = 1
         /\ count_tokens(UnitsOf(document[w])[1]) > cfg.max_tokens)
        => LET cs == chunks[w] IN
            /\ count_tokens(UnitsOf(document[w])[1]) = 3 * cfg.max_tokens => Len(cs) >= 3
            /\ \A k \in 1..Len(cs) : count_tokens(ChunkWords(cs[k])) <= cfg.max_tokens
            /\ \A k \in 2..Len(cs) : Overlaps(cs[k - 1], cs[k])

\* C20: create_chunks of a document without text units and without tables
\* (no semantic element and no paragraph, or no page with text) returns no
\* chunk and does not raise; of a document of one unit of at most max_tokens
\* tokens and no table it returns exactly one chunk, has_table false.
C20_EmptyAndSingleUnit ==
    \A w \in Workers :
        (pc[w] # "input" /\ document[w].tables = <<>>) =>
            /\ UnitsOf(document[w]) = <<>> => (pc[w] = "output" /\ chunks[w] = <<>>)
            /\ (/\ Len(UnitsOf(document[w])) = 1
                /\ count_tokens(UnitsOf(document[w])[1]) <= cfg.max_tokens)
               => /\ pc[w] = "output"
                  /\ Len(chunks[w]) = 1
                  /\ ~chunks[w][1].metadata.has_table
                  /\ ChunkWords(chunks[w][1]) = UnitsOf(document[w])[1]

\* a semantic element of exactly max_tokens tokens came out as one chunk
C20_Witness ==
    /\ pc[1] = "output"
    /\ document[1].semantic_elements # <<>>
    /\ Len(UnitsOf(document[1])) = 1
    /\ count_tokens(UnitsOf(document[1])[1]) = cfg.max_tokens
    /\ Len(chunks[1]) = 1


\* the overlap seed of a flushed window: its last max(1, overlap_tokens div 2)
\* words, or all of them when there are no more
Seed(words) == LastN(words, Max2(1, OverlapTokens(cfg) \div 2))

\* cs is what greedy packing with the overlap seed makes of the units U, none
\* of which has more than max_tokens tokens: the units are cut in Len(cs)
\* consecutive groups, b[k] the first unit of group k; a chunk is its group,
\* after the seed of the chunk before it; every unit of a group but the first
\* fitted the window it was added to, and the first unit of a group did not
\* fit the window flushed before it.  In the semantic path the parts of a
\* window are joined by blanks, in the plain path they stay paragraphs.
Packed(U, cs, semantic) ==
    IF U = <<>> THEN cs = <<>>
    ELSE /\ Len(cs) >= 1
         /\ \E b \in [1..Len(cs) -> 1..Len(U)] :
             /\ b[1] = 1
             /\ \A k \in 1..(Len(cs) - 1) : b[k] < b[k + 1]
             /\ \A k \in 1..Len(cs) :
                 LET last == IF k = Len(cs) THEN Len(U) ELSE b[k + 1] - 1
                     seed == IF k = 1 THEN <<>> ELSE <<Seed(ChunkWords(cs[k - 1]))>>
                     parts == seed \o SubSeq(U, b[k], last)
                 IN  /\ cs[k].content = IF semantic THEN <<Flatten(parts)>> ELSE parts
                     /\ \A j \in (b[k] + 1)..last :
                            count_tokens(Flatten(seed \o SubSeq(U, b[k], j)))
                                <= cfg.max_tokens
                     /\ k > 1 => count_tokens(ChunkWords(cs[k - 1]))
                                     + count_tokens(U[b[k]]) > cfg.max_tokens

\* the chunks after the first n of cs
Drop(cs, n) == SubSeq(cs, n + 1, Len(cs))

TextWords(cs) ==
    LET tc == SelectSeq(cs, LAMBDA c : ~c.metadata.has_table)
    IN  [k \in 1..Len(tc) |-> ChunkWords(tc[k])]

\* ws, a sequence of word sequences, is the text words cut in pieces, each
\* piece after the first possibly preceded by words repeated from the end of
\* the piece before it (n[k] of them)
CutWithOverlap(ws, words) ==
    \E n \in [1..Len(ws) -> 0..Len(words)] :
        /\ \A k \in 1..Len(ws) :
            /\ n[k] <= Len(ws[k])
            /\ k = 1 => n[k] = 0
            /\ k > 1 => /\ n[k] <= Len(ws[k - 1])
                        /\ SubSeq(ws[k], 1, n[k])
                               = SubSeq(ws[k - 1], Len(ws[k - 1]) - n[k] + 1, Len(ws[k - 1]))
        /\ Flatten([k \in 1..Len(ws) |-> SubSeq(ws[k], n[k] + 1, Len(ws[k]))]) = words

\* C28: windowing drops no text and keeps the order: the text chunks of a
\* document, each without the words it repeats from the end of the chunk
\* before it, are together the words of the document's units in input order.
\* This covers the flush with an overlap seed, the split of an oversized unit
\* and the last words of an oversized paragraph carried into the next window.
C28_NoTextDropped ==
    \A w \in Workers :
        pc[w] = "output" =>
            CutWithOverlap(TextWords(chunks[w]), Flatten(UnitsOf(document[w])))

\* an oversized paragraph, then a small one that does not fit the window left
\* open with the paragraph's last word: three chunks
C28_Witness ==
    /\ pc[1] = "output"
    /\ document[1].plain_text = <<(<<2, 2>>), (<<1>>)>>
    /\ cfg.max_tokens = 3
    /\ Len(chunks[1]) = 3
    /\ ChunkWords(chunks[1][3]) = <<2, 1>>

\* C30: no text chunk create_chunks returns has empty content, whatever the
\* units hold: elements of empty text, or an oversized unit whose first word
\* alone has more than max_tokens tokens.
C30_NoEmptyChunk ==
    \A w \in Workers :
        pc[w] = "output" =>
            \A k \in 1..Len(chunks[w]) :
                ~chunks[w][k].metadata.has_table => ChunkWords(chunks[w][k]) # <<>>

-----------------------------------------------------------------------------
(* Metadata of the chunks: create_chunks applied to short documents, with and
   without a table, whose extracted_data holds any fields under keys on and
   off the allow-list, one of them named like a core field *)

ExtractedKeys == {"fund_name", "nav_value", "category", "chunk_index"}

\* the maps the selectors may have filled: any of the keys, with any value
ExtractedData == UNION {[K -> Words] : K \in SUBSET ExtractedKeys}

MetaDocuments ==
    {WithExtracted(d, ed) :
        d \in {ParsedDocument("html", <<<<1>>, <<2>>>>, <<>>, <<>>, <<>>),
               ParsedDocument("html", <<<<1>>>>, <<>>, <<>>, <<<<1>>>>),
               ParsedDocument("pdf", <<>>, <<>>,
                              <<[page_number |-> 1, elements |-> <<<<1>>>>,
                                 well_formed |-> TRUE]>>, <<>>)},
        ed \in ExtractedData}

InitMeta ==
    /\ cfg \in {DefaultConfig, [DefaultConfig EXCEPT !.preserve_verbatim = FALSE]}
    /\ ledger = <<>>
    /\ now = 0
    /\ pc = [w \in {1} |-> "input"]
    /\ \E d \in MetaDocuments : document = [w \in {1} |-> d]
    /\ page = [w \in {1} |-> 0]
    /\ chunks = [w \in {1} |-> <<>>]
    /\ idx = [w \in {1} |-> 0]
    /\ diff = [w \in {1} |-> NoDiff]
    /\ to_ingest = [w \in {1} |-> <<>>]
    /\ result = [w \in {1} |-> NoResult]
    /\ base = [w \in {1} |-> <<>>]
    /\ processed = {}
    /\ sent = {}
    /\ api = NoCall
    /\ stats = [w \in {1} |-> NoStats]
    /\ statuses = [w \in {1} |-> <<>>]
    /\ ingested = [w \in {1} |-> <<>>]
    /\ rpc = [w \in {1} |-> "none"]
    /\ json_files = [w \in {1} |-> <<>>]
    /\ results = [w \in {1} |-> <<>>]
    /\ report_files = [w \in {1} |-> 0]
    /\ report = [w \in {1} |-> NoReport]

NextMeta == \E w \in Workers : CreateChunks(w)

SpecMeta == InitMeta /\ [][NextMeta]_vars

\* the core fields of the metadata (lines 453-463) the model carries
CoreFields == {"parent_document_id", "file_type", "chunk_index", "created_at", "has_table"}

\* C21: every chunk of a document, text chunk or table chunk, has in its
\* metadata each extracted field whose key is on the allow-list, with the
\* document's value; no extracted key off the allow-list is taken over; and
\* the core fields have the values they have without any extracted field.
C21_MetadataInheritance ==
    \A w \in Workers :
        pc[w] = "output" =>
            LET ed == document[w].extracted_data
                ref == create_chunks([document[w] EXCEPT !.extracted_data = <<>>],
                                     cfg, now - 1).chunks
            IN  /\ Len(ref) = Len(chunks[w])
                /\ \A k \in 1..Len(chunks[w]) :
                    LET m == chunks[w][k].metadata IN
                        /\ \A key \in DOMAIN ed \cap AllowList :
                               key \in DOMAIN m /\ m[key] = ed[key]
                        /\ \A key \in DOMAIN ed \ AllowList :
                               key \in DOMAIN m => key \in CoreFields
                        /\ \A key \in CoreFields : m[key] = ref[k].metadata[key]

-----------------------------------------------------------------------------
(* Claims about process_document on one orchestrator (Spec) *)

\* The chunk the last check_chunk_diff of worker w was about
Classified(w) ==
    IF pc[w] = "record" THEN chunks[w][idx[w] + 1] ELSE chunks[w][idx[w]]

HasClassified(w) == diff[w] # NoDiff /\ (pc[w] = "record" \/ idx[w] > 0)

\* C3: monotonic versioning.  A row enters the ledger with version 1; a write
\* that changes the stored checksum raises the version by exactly 1; otherwise
\* the version stays; no row leaves the ledger and no version decreases.  The
\* version about to be recorded is the one the ledger implies at that moment.
C3_Step ==
    /\ DOMAIN ledger \subseteq DOMAIN ledger'
    /\ \A id \in DOMAIN ledger' :
        IF id \notin DOMAIN ledger THEN ledger'[id].version = 1
        ELSE /\ ledger'[id].version >= ledger[id].version
             /\ ledger'[id].checksum # ledger[id].checksum
                    => ledger'[id].version = ledger[id].version + 1
             /\ ledger'[id].checksum = ledger[id].checksum
                    => ledger'[id].version = ledger[id].version
    /\ \A w \in Workers :
        pc'[w] = "record" =>
            LET c == chunks'[w][idx'[w] + 1] IN
                /\ diff'[w][1] \in {"new", "updated"}
                /\ c.chunk_id \in DOMAIN ledger' =>
                       /\ ledger'[c.chunk_id].checksum # c.checksum
                       /\ diff'[w][2] = ledger'[c.chunk_id].version + 1
                /\ c.chunk_id \notin DOMAIN ledger' => diff'[w][2] = 1

C3_MonotonicVersioning == [][C3_Step]_vars

\* a chunk_id has been observed with changed content twice: version 3 is stored
C3_Witness == \E id \in DOMAIN ledger : ledger[id].version = 3

\* C4: re-processing a document that was processed before without failure
\* classifies every chunk as unchanged: nothing is queued for ingestion and the
\* ledger stays as it was when the document was started.
C4_SecondRunUnchanged ==
    \A w \in Workers :
        (document[w].checksum \in processed /\ pc[w] \in {"classify", "record"}) =>
            /\ to_ingest[w] = <<>>
            /\ ledger = base[w]
            /\ diff[w][1] \in {"none", "unchanged"}

\* d2 is d1 with its text modified: the same kind of document with the same
\* units in the same places, and another fingerprint
IsModified(d1, d2) ==
    /\ d1.checksum # d2.checksum
    /\ d1.file_type = d2.file_type
    /\ Len(d1.semantic_elements) = Len(d2.semantic_elements)
    /\ Len(d1.pages) = Len(d2.pages)
    /\ Len(d1.tables) = Len(d2.tables)

\* C5: when the chunk at some position of a document was recorded at version 1
\* and the document, its text modified (another fingerprint), is processed
\* again, the chunk at that position is classified 'updated' with version 2.
C5_ModifiedIsUpdated ==
    \A w \in Workers :
        HasClassified(w) =>
            \A d1 \in Documents :
                LET key == IndexKey(Classified(w).metadata.chunk_index)
                    id1 == generate_chunk_id(d1, key)
                IN  (/\ IsModified(d1, document[w])
                     /\ d1.checksum \in processed
                     /\ ~Classified(w).metadata.has_table
                     /\ id1 \in DOMAIN ledger
                     /\ ledger[id1].version = 1)
                    => diff[w] = <<"updated", 2>>

\* C7: a write to an existing row keeps its created_at
C7_Step ==
    \A id \in DOMAIN ledger :
        id \in DOMAIN ledger' /\ ledger'[id].created_at = ledger[id].created_at

C7_CreatedAtPreserved == [][C7_Step]_vars

\* C9: when process_document ends in its except clause after create_chunks has
\* returned, the ledger is as it was when the document was started.
C9_ErrorLeavesNoRecord ==
    \A w \in Workers :
        (pc[w] = "idle" /\ result[w].outcome = "error"
            /\ result[w].stage \in {"classify", "ledger"})
            => ledger = base[w]

\* C10: while create_chunks has not returned, and when it raised, the document
\* has had no ledger operation (no classification, no row written); the chunks
\* being classified are the complete list create_chunks gives for the document.
C10_NoLedgerOpBeforeChunked ==
    \A w \in Workers :
        /\ (pc[w] = "chunking"
              \/ (pc[w] = "idle" /\ result[w].outcome = "error"
                    /\ result[w].stage = "chunking"))
            => (diff[w] = NoDiff /\ idx[w] = 0 /\ to_ingest[w] = <<>> /\ ledger = base[w])
        /\ (pc[w] \in {"classify", "record"} \/ diff[w] # NoDiff)
            => LET r == create_chunks(document[w], cfg, now) IN
                   ~r.raised /\ chunks[w] = r.chunks

\* a pdf document whose second page raises: the chunks of the first page were
\* produced, and the processing ended in the except clause
C10_Witness ==
    \E w \in Workers :
        /\ pc[w] = "idle" /\ result[w].outcome = "error" /\ result[w].stage = "chunking"
        /\ chunks[w] # <<>>
        /\ DOMAIN ledger # {}


\* the last chunk of a batch bearing the chunk_id of its k-th chunk
LastWithId(batch, k) ==
    batch[CHOOSE j \in k..Len(batch) :
              /\ batch[j].chunk_id = batch[k].chunk_id
              /\ \A i \in (j + 1)..Len(batch) : batch[i].chunk_id # batch[k].chunk_id]

\* every chunk of the batch has its row, with the checksum last recorded for it
AllRecorded(batch) ==
    \A k \in 1..Len(batch) :
        /\ batch[k].chunk_id \in DOMAIN ledger
        /\ ledger[batch[k].chunk_id].checksum = LastWithId(batch, k).checksum

\* C12: the ledger rows of a document's new and updated chunks are committed
\* before its ingestion call starts (each chunk queued for ingestion has its
\* row as soon as the next chunk is looked at, so all have when the loop
\* ends), and the rows are still there, unaltered, after the call answered.
C12_LedgerBeforeIngest ==
    \A w \in Workers :
        /\ pc[w] = "classify" => AllRecorded(to_ingest[w])
        /\ \A b \in 1..Len(ingested[w]) :
            /\ AllRecorded(ingested[w][b])
            /\ pc[w] = "idle" /\ result[w].outcome = "ok"

\* a batch of two chunks was ingested
C12_Witness ==
    \E w \in Workers :
        /\ Len(ingested[w]) = 1
        /\ Len(ingested[w][1]) = 2
        /\ result[w].ingestion_result = "success"

\* the chunks among cs[1..k] whose status is not 'unchanged', in order
RECURSIVE NewOrUpdated(_, _, _)
NewOrUpdated(cs, sts, k) ==
    IF k = 0 THEN <<>>
    ELSE IF sts[k] \in {"new", "updated"}
         THEN Append(NewOrUpdated(cs, sts, k - 1), cs[k])
         ELSE NewOrUpdated(cs, sts, k - 1)

\* C13: for a document processed without error ingestion is called at most
\* once; the batch is the document's chunks classified 'new' or 'updated', in
\* chunk order, so it holds no chunk classified 'unchanged'; when there is no
\* such chunk no call is made and the result says 'skipped'; chunks_ingested
\* is the size of the batch.  No call is made for a document that failed.
C13_IngestionBatch ==
    \A w \in Workers :
        /\ Len(ingested[w]) <= 1
        /\ (pc[w] = "idle" /\ result[w].outcome = "error") => ingested[w] = <<>>
        /\ (pc[w] = "idle" /\ result[w].outcome = "ok") =>
            /\ Len(statuses[w]) = Len(chunks[w])
            /\ LET batch == NewOrUpdated(chunks[w], statuses[w], Len(chunks[w])) IN
                /\ result[w].chunks_ingested = Len(batch)
                /\ IF batch = <<>>
                   THEN ingested[w] = <<>> /\ result[w].ingestion_result = "skipped"
                   ELSE ingested[w] = <<batch>> /\ result[w].ingestion_result # "skipped"

\* a document of two chunks, the first unchanged and the second not, was
\* ingested: the batch holds the second chunk only
C13_Witness ==
    \E w \in Workers :
        /\ pc[w] = "idle" /\ result[w].outcome = "ok"
        /\ Len(chunks[w]) = 2
        /\ statuses[w][1] = "unchanged"
        /\ ingested[w] = <<(<<chunks[w][2]>>)>>


\* the tables of d whose rendering has more than max_tokens tokens
BigTables(d) == {k \in 1..Len(d.tables) : count_tokens(d.tables[k]) > cfg.max_tokens}

\* C15: of a document with a table whose rendering has more than max_tokens
\* tokens, create_chunks returns that table as one chunk, content whole and
\* token_count above max_tokens, and the processing of the document does not
\* end in an error raised by the document (sqlite failing is another matter).
C15_TableExemption ==
    \A w \in Workers :
        (BigTables(document[w]) # {} /\ cfg.preserve_verbatim) =>
            /\ pc[w] \in {"classify", "record"} =>
                \A k \in BigTables(document[w]) :
                    \E j \in 1..Len(chunks[w]) :
                        /\ chunks[w][j].metadata.has_table
                        /\ chunks[w][j].content = <<document[w].tables[k]>>
                        /\ chunks[w][j].token_count > cfg.max_tokens
            /\ (pc[w] = "idle" /\ result[w].outcome = "error") => result[w].stage = "ledger"

\* C16: every chunk create_chunks returns carries 'checksum', the sha256 of
\* its content, so check_chunk_diff raises on none, and no document ends in
\* the error of a classification that raised.
C16_EveryChunkFingerprinted ==
    \A w \in Workers :
        /\ pc[w] \in {"classify", "record"} =>
            \A k \in 1..Len(chunks[w]) :
                /\ ~DiffRaises(chunks[w][k])
                /\ chunks[w][k].checksum = Sha256(chunks[w][k].content)
        /\ ~(pc[w] = "idle" /\ result[w].outcome = "error" /\ result[w].stage = "classify")

\* C23: update_chunk_checksum is called for chunks classified 'new' or
\* 'updated' only, and when a document has been processed the ledger row of
\* every chunk_id that one of its chunks was classified 'unchanged' under is
\* the row that was there when the document was started (checksum, version,
\* created_at, updated_at and ingested_at alike).
C23_UnchangedNotRecorded ==
    \A w \in Workers :
        /\ pc[w] = "record" => diff[w][1] \in {"new", "updated"}
        /\ (pc[w] = "idle" /\ result[w].outcome = "ok") =>
            \A k \in 1..Len(chunks[w]) :
                statuses[w][k] = "unchanged" =>
                    LET id == chunks[w][k].chunk_id IN
                        /\ id \in DOMAIN base[w]
                        /\ id \in DOMAIN ledger
                        /\ ledger[id] = base[w][id]

\* C25: the chunks create_chunks returns for one document, html or pdf of any
\* number of pages, have pairwise distinct chunk_ids.
C25_ChunkIdsDistinct ==
    \A w \in Workers :
        pc[w] \in {"classify", "record"} =>
            \A j, k \in 1..Len(chunks[w]) :
                j # k => chunks[w][j].chunk_id # chunks[w][k].chunk_id

\* the chunk was handed to ingest_to_agentset, or is queued for the call of
\* the processing under way
HandedOver(w, chunk) ==
    \/ <<chunk.chunk_id, chunk.checksum>> \in sent
    \/ \E k \in 1..Len(to_ingest[w]) :
           /\ to_ingest[w][k].chunk_id = chunk.chunk_id
           /\ to_ingest[w][k].checksum = chunk.checksum

\* C26: over any sequence of document processings on one ledger, a chunk is
\* classified 'unchanged' only when a chunk of that chunk_id and checksum was
\* handed to the ingestion call before (or is queued for it); and when a
\* processing has ended, with a result or with an error, every ledger row it
\* wrote is the row of a chunk that was handed to the ingestion call.
C26_RecordedImpliesIngested ==
    \A w \in Workers :
        /\ pc[w] \in {"classify", "record"} =>
            \A k \in 1..Len(statuses[w]) :
                statuses[w][k] = "unchanged" => HandedOver(w, chunks[w][k])
        /\ (pc[w] = "idle" /\ result[w].outcome # "none") =>
            \A id \in DOMAIN ledger :
                (id \notin DOMAIN base[w] \/ ledger[id] # base[w][id])
                    => <<id, ledger[id].checksum>> \in sent

-----------------------------------------------------------------------------
(* The ledger used directly: a client calls check_chunk_diff and
   update_chunk_checksum in any order, with chunks of one document that it
   has just built (tests/unit/test_chunk_orchestrator.py,
   tests/performance/test_chunking_performance.py) *)

ApiDocument == ParsedDocument("html", <<<<1>>, <<2>>>>, <<>>, <<>>, <<>>)

ApiChunks(t) ==
    {create_chunk_dict(<<c>>, k, ApiDocument, <<>>, t) : c \in DocTexts, k \in 0..1}

SameChunk(a, b) == a.chunk_id = b.chunk_id /\ a.checksum = b.checksum

\* datetime.now() has moved on
Tick ==
    /\ now < MaxTime
    /\ now' = now + 1
    /\ UNCHANGED <<cfg, ledger, pc, document, page, chunks, idx, diff, to_ingest,
                   result, base, processed, sent, api, stats, statuses, ingested, results, run_vars>>

\* check_chunk_diff(chunk)
ApiCheck(chunk) ==
    /\ ~DiffRaises(chunk)
    /\ LET d == check_chunk_diff(chunk, ledger) IN
        api' = [op |-> "check", chunk |-> chunk, status |-> d[1], version |-> d[2],
                again |-> FALSE]
    /\ UNCHANGED <<cfg, ledger, now, pc, document, page, chunks, idx, diff, to_ingest,
                   result, base, processed, sent, stats, statuses, ingested, results, run_vars>>

\* update_chunk_checksum(chunk, version).  api.status remembers what the
\* check_chunk_diff before it said, when the call passes on that chunk and
\* that version (also through repeated calls).
ApiRecord(chunk, version) ==
    /\ ledger' = update_chunk_checksum(chunk, version, ledger, now)
    /\ LET follows == /\ api.op # "none"
                      /\ SameChunk(api.chunk, chunk)
                      /\ api.version = version
       IN  api' = [op |-> "record", chunk |-> chunk,
                   status |-> IF follows THEN api.status ELSE "none",
                   version |-> version,
                   again |-> follows /\ api.op = "record"]
    /\ UNCHANGED <<cfg, now, pc, document, page, chunks, idx, diff, to_ingest,
                   result, base, processed, sent, stats, statuses, ingested, results, run_vars>>

InitLedger == Idle({1}, DefaultConfig)

NextLedger ==
    \/ Tick
    \/ \E chunk \in ApiChunks(now) : ApiCheck(chunk)
    \/ \E chunk \in ApiChunks(now), version \in 1..MaxVersion : ApiRecord(chunk, version)

SpecLedger == InitLedger /\ [][NextLedger]_vars

\* C2: a chunk_id absent from the ledger is classified ('new', 1); once it was
\* recorded with that version the same chunk is classified ('unchanged', 1);
\* a chunk_id that is not 'new' is never 'new' again, whatever calls follow.
C2_State ==
    /\ \A c \in ApiChunks(now) :
        c.chunk_id \notin DOMAIN ledger => check_chunk_diff(c, ledger) = <<"new", 1>>
    /\ (api.op = "record" /\ api.status = "new")
        => check_chunk_diff(api.chunk, ledger) = <<"unchanged", 1>>

C2_Step ==
    \A c \in ApiChunks(now) :
        check_chunk_diff(c, ledger)[1] # "new" => check_chunk_diff(c, ledger')[1] # "new"

C2_NewThenUnchanged == [](C2_State) /\ [][C2_Step]_vars

\* a chunk was classified new, recorded, and both chunk_ids are in the ledger
C2_Witness ==
    /\ api.op = "record" /\ api.status = "new"
    /\ Cardinality(DOMAIN ledger) = 2

\* C8: update_chunk_checksum for a chunk classified 'unchanged', with the
\* version returned, leaves the stored checksum and version as they were, also
\* when repeated, and the chunk is still classified 'unchanged' with that
\* version.
C8_Step ==
    (api'.op = "record" /\ api'.status = "unchanged") =>
        LET id == api'.chunk.chunk_id IN
            /\ id \in DOMAIN ledger /\ id \in DOMAIN ledger'
            /\ ledger'[id].checksum = ledger[id].checksum
            /\ ledger'[id].version = ledger[id].version
            /\ check_chunk_diff(api'.chunk, ledger') = <<"unchanged", api'.version>>

C8_RecordUnchangedIdempotent == [][C8_Step]_vars

\* the redundant call was made twice in a row, on a row at version 2
C8_Witness ==
    /\ api.op = "record" /\ api.status = "unchanged" /\ api.again
    /\ api.version = 2


-----------------------------------------------------------------------------
(* Two orchestrators (two processes started on the same parsed documents)
   sharing the ledger file: their calls interleave *)

InitConc == Idle({1, 2}, DefaultConfig)

SpecConc == InitConc /\ [][Next]_vars

\* C6: classify-then-record of a chunk_id is serialized against the other
\* workers: the classification a worker is about to record is the one the
\* ledger gives at that moment (no two workers both record a chunk_id as new
\* at version 1, no version rests on a row that was replaced since).
C6_ClassifyRecordSerialized ==
    \A w \in Workers :
        pc[w] = "record" =>
            diff[w] = check_chunk_diff(chunks[w][idx[w] + 1], ledger)


====
